---- MODULE Spec2Model ----
(***************************************************************************)
(* Model of fix_whatsapp_registered.py: the credential recovery utility.   *)
(*                                                                         *)
(* The state is the filesystem (the credentials path and its sibling       *)
(* backup path), the position of the single-threaded run inside            *)
(* main / CredentialManager.fix_registration_flag, the in-memory record,   *)
(* and the process exit status.  One invocation of the tool is one run;    *)
(* successive invocations are modelled by NextRun.                         *)
(*                                                                         *)
(* Spec runs the tool on a filesystem whose operations succeed and without *)
(* operator interruption.  FaultSpec adds the failures the code handles:   *)
(* exceptions raised by open/read/copy/write and KeyboardInterrupt         *)
(* delivered at any point inside main's try block.  LiveSpec is FaultSpec  *)
(* with weak fairness of the run's single thread.                          *)
(*                                                                         *)
(* Path entries are absent, a directory, or a regular file; the backup     *)
(* path starts absent or as a regular file left by an earlier run.         *)
(***************************************************************************)
EXTENDS Integers, Sequences, FiniteSets, TLC

\* ------------------------------------------------------------------ bounds
MaxRuns == 2      \* successive invocations of the tool on the same path
MaxNum  == 1      \* JSON numbers range over 0..MaxNum

\* ------------------------------------------------------------- JSON values
\* A JSON value is a record of one shape: its type tag j, its number (or
\* array length) n, its string s, and for a dict the function o from the
\* keys it holds to their values.
NoKeys   == [k \in {} |-> 0]
Mk(j, n, s, o) == [j |-> j, n |-> n, s |-> s, o |-> o]
Absent   == Mk("absent", 0, "", NoKeys)
JNull    == Mk("null", 0, "", NoKeys)
JTrue    == Mk("true", 0, "", NoKeys)
JFalse   == Mk("false", 0, "", NoKeys)
JNum(n)  == Mk("num", n, "", NoKeys)
JStr(s)  == Mk("str", 0, s, NoKeys)
JArr(n)  == Mk("arr", n, "", NoKeys)
JObj(o)  == Mk("obj", 0, "", o)

\* Result of a failed parse (json.JSONDecodeError)
JSONDecodeError == Mk("error", 0, "", NoKeys)

\* Python's dict type test: only dicts have a .get method
IsDict(x) == x.j = "obj"

\* Python truthiness, bool(x)
bool(x) ==
  CASE x.j = "true" -> TRUE
    [] x.j = "num"  -> x.n # 0
    [] x.j = "str"  -> x.s # ""
    [] x.j = "arr"  -> x.n # 0
    [] x.j = "obj"  -> DOMAIN x.o # {}
    [] OTHER        -> FALSE

\* dict.get(key, default)
get(d, key, default) == IF key \in DOMAIN d.o THEN d.o[key] ELSE default

\* The empty dict literal {} used as the default of creds.get("me", {})
EmptyDict == JObj(NoKeys)

\* ------------------------------------------------------------ input domain
IdVals         == {JNull, JStr(""), JStr("x")}
InnerDicts     == {EmptyDict} \cup {JObj([k \in {"id"} |-> i]) : i \in IdVals}
AccountVals    == {JNull, EmptyDict, JObj([k \in {"id"} |-> JStr("x")])}
MeVals         == {JNull, JStr("x"), JArr(0)} \cup InnerDicts
RegisteredVals == {JNull, JTrue, JFalse, JStr("x")} \cup {JNum(n) : n \in 0..MaxNum}
ExtraVals      == {JStr("x")}
Keys           == {"account", "me", "registered", "extra"}

\* Credential records: JSON objects holding any subset of the three
\* inspected keys and one unrelated key
Records ==
  UNION {{JObj([k \in D |-> f[k]]) :
            f \in [account : AccountVals, me : MeVals,
                   registered : RegisteredVals, extra : ExtraVals]} :
         D \in SUBSET Keys}

\* Well-formed JSON documents whose top-level value is not an object
NonObjects == {JNull, JArr(0), JArr(1), JStr("x"), JNum(0), JTrue}

\* -------------------------------------------------------------- filesystem
NoEntry  == [k |-> "absent", fmt |-> "", val |-> JNull]
DirEntry == [k |-> "dir", fmt |-> "", val |-> JNull]
File(fmt, val) == [k |-> "file", fmt |-> fmt, val |-> val]

\* A file whose bytes are not well-formed JSON
Garbage == File("garbage", JNull)
\* A file holding a strict prefix (possibly empty) of what was being written:
\* the state of a file opened with 'w' and not completely written
Partial == File("partial", JNull)

\* Mutant of json_load: unparsable bytes are read as an empty record
json_load_lenient(e) == IF e.fmt \in {"compact", "indent2"} THEN e.val ELSE EmptyDict

\* json.load of a file's bytes
json_load(e) == IF e.fmt \in {"compact", "indent2"} THEN e.val ELSE JSONDecodeError

\* json.dump(creds, f, indent=2): the bytes of the re-serialised record
json_dump(val) == File("indent2", val)

\* File names are sequences of characters
BACKUP_SUFFIX == <<".", "b">>
DEFAULT_CREDS_PATH == <<"c", ".", "j">>
NoArg == <<>>
CustomPaths == {<<"c">>, <<".", "c">>}

\* PurePath.suffix: the last dot-separated part, unless the only dot is the
\* first or the last character
suffix(name) ==
  LET dots == {i \in 1..Len(name) : name[i] = "."}
      last == IF dots = {} THEN 0 ELSE CHOOSE i \in dots : \A k \in dots : k <= i
  IN IF 1 < last /\ last < Len(name) THEN SubSeq(name, last, Len(name)) ELSE <<>>

\* PurePath.with_suffix(new)
with_suffix(name, new) ==
  IF suffix(name) = <<>> THEN name \o new
  ELSE SubSeq(name, 1, Len(name) - Len(suffix(name))) \o new

\* backup_path = creds_path.with_suffix(creds_path.suffix + BACKUP_SUFFIX)
backup_path(p) == with_suffix(p, suffix(p) \o BACKUP_SUFFIX)

\* creds_path or DEFAULT_CREDS_PATH
locate(arg) == IF arg = NoArg THEN DEFAULT_CREDS_PATH ELSE arg

\* The paths a run on credentials path p can touch
PathsOf(p) == {p, p \o BACKUP_SUFFIX, backup_path(p)}

InitCredsEntries ==
  {NoEntry, DirEntry, Garbage} \cup {File("compact", v) : v \in Records \cup NonObjects}
InitBackupEntries == {NoEntry, Garbage}

\* ------------------------------------------------------------------- state
VARIABLES
  fs,          \* path -> entry
  argv,        \* the optional positional argument
  creds_path,  \* CredentialManager.creds_path
  pc,          \* position of the run
  creds,       \* the loaded record (Absent before load)
  status,      \* result of check_registration_status
  success,     \* return value of fix_registration_flag: "none", "true", "false", "raised"
  exitCode,    \* process exit status, -1 while running
  run,         \* number of the current invocation
  reads, copies, writes,   \* file reads, backup copies, file writes of this run
  reached,     \* positions this run has passed through
  interrupted, \* KeyboardInterrupt was delivered to this run
  orig,        \* filesystem at the start of this run
  afterFirst,  \* filesystem at the end of the first run
  firstExit    \* exit status of the first run

vars == <<fs, argv, creds_path, pc, creds, status, success, exitCode, run,
          reads, copies, writes, reached, interrupted, orig, afterFirst, firstExit>>

NoStatus == [has_account |-> FALSE, has_me |-> FALSE, registered |-> Absent,
             needs_fix |-> FALSE]

Init ==
  /\ argv \in {NoArg} \cup CustomPaths
  /\ \E e \in InitCredsEntries, b \in InitBackupEntries :
       fs = [p \in PathsOf(locate(argv)) |-> IF p = locate(argv) THEN e
                             ELSE IF p = backup_path(locate(argv)) THEN b
                             ELSE NoEntry]
  /\ creds_path = NoArg
  /\ pc = "main"
  /\ creds = Absent
  /\ status = NoStatus
  /\ success = "none"
  /\ exitCode = -1
  /\ run = 1
  /\ reads = 0 /\ copies = 0 /\ writes = 0
  /\ reached = {}
  /\ interrupted = FALSE
  /\ orig = fs
  /\ afterFirst = fs
  /\ firstExit = -1

\* Move the run to position q, recording q as reached
Goto(q) == pc' = q /\ reached' = reached \cup {q}

\* ----------------------------------------------------------------- actions
\* main, up to the call of fix_registration_flag: choose the path
main ==
  /\ pc = "main"
  /\ creds_path' = locate(argv)
  /\ Goto("validate")
  /\ UNCHANGED <<fs, argv, creds, status, success, exitCode, run, reads, copies,
                 writes, interrupted, orig, afterFirst, firstExit>>

\* validate_credentials and the test of its result in fix_registration_flag
validate_credentials ==
  /\ pc = "validate"
  /\ LET e == fs[creds_path] IN
       IF e.k = "absent" \/ e.k = "dir"
       THEN /\ success' = "false" /\ Goto("exit") /\ reads' = reads
       ELSE /\ reads' = reads + 1
            /\ IF json_load(e) = JSONDecodeError
               THEN success' = "false" /\ Goto("exit")
               ELSE success' = success /\ Goto("load")
  /\ UNCHANGED <<fs, argv, creds_path, creds, status, exitCode, run, copies,
                 writes, interrupted, orig, afterFirst, firstExit>>

\* load_credentials and the test "creds is None" in fix_registration_flag
load_credentials ==
  /\ pc = "load"
  /\ reads' = reads + 1
  /\ LET loaded == IF fs[creds_path].k = "file" THEN json_load(fs[creds_path])
                   ELSE JSONDecodeError IN
       IF loaded = JSONDecodeError \/ loaded = JNull
       THEN /\ creds' = creds /\ success' = "false" /\ Goto("exit")
       ELSE /\ creds' = loaded /\ success' = success /\ Goto("check")
  /\ UNCHANGED <<fs, argv, creds_path, status, exitCode, run, copies, writes,
                 interrupted, orig, afterFirst, firstExit>>

\* has_me = bool(creds.get("me", {}).get("id"))
has_me(c) == bool(get(get(c, "me", EmptyDict), "id", JNull))

\* Mutant of needs_fix: the test "not registered" is left out
needs_fix_ignores_registered(c) == bool(get(c, "account", JNull)) /\ has_me(c)

\* Mutant of needs_fix: "registered == False" instead of "not registered"
needs_fix_only_false(c) ==
  bool(get(c, "account", JNull)) /\ has_me(c) /\ get(c, "registered", JFalse) = JFalse

\* has_account and has_me and not registered
needs_fix(c) ==
  bool(get(c, "account", JNull)) /\ has_me(c)
    /\ ~ bool(get(c, "registered", JFalse))

\* The status dictionary built by check_registration_status
status_of(c) ==
  [has_account |-> bool(get(c, "account", JNull)),
   has_me      |-> has_me(c),
   registered  |-> get(c, "registered", JFalse),
   needs_fix   |-> needs_fix(c)]

\* check_registration_status raises AttributeError: .get on a value that is
\* not a dict
raises_AttributeError(c) ==
  \/ ~ IsDict(c)
  \/ ~ IsDict(get(c, "me", EmptyDict))

\* check_registration_status, called from fix_registration_flag
check_registration_status ==
  /\ pc = "check"
  /\ IF raises_AttributeError(creds)
     THEN /\ success' = "raised" /\ status' = status /\ Goto("exit")
     ELSE /\ success' = success /\ status' = status_of(creds) /\ Goto("decide")
  /\ UNCHANGED <<fs, argv, creds_path, creds, exitCode, run, reads, copies,
                 writes, interrupted, orig, afterFirst, firstExit>>

\* Mutant of set_registered: the record is replaced by the flag alone
set_registered_only(c) == JObj([k \in {"registered"} |-> JTrue])

\* creds["registered"] = True
set_registered(c) ==
  JObj([k \in DOMAIN c.o \cup {"registered"} |->
          IF k = "registered" THEN JTrue ELSE c.o[k]])

\* fix_registration_flag after the status check: return when no fix is
\* needed, else apply the fix in memory and call save_credentials
fix_registration_flag ==
  /\ pc = "decide"
  /\ IF ~ status["needs_fix"]
     THEN /\ creds' = creds /\ success' = "true" /\ Goto("exit")
     ELSE /\ creds' = set_registered(creds) /\ success' = success /\ Goto("backup")
  /\ UNCHANGED <<fs, argv, creds_path, status, exitCode, run, reads, copies,
                 writes, interrupted, orig, afterFirst, firstExit>>

\* save_credentials, first step: shutil.copy2 to the backup path when the
\* credentials path exists
save_credentials_backup ==
  /\ pc = "backup"
  /\ IF fs[creds_path].k # "absent"
     THEN /\ fs' = [fs EXCEPT ![backup_path(creds_path)] = fs[creds_path]]
          /\ copies' = copies + 1
     ELSE /\ fs' = fs /\ copies' = copies
  /\ Goto("open")
  /\ UNCHANGED <<argv, creds_path, creds, status, success, exitCode, run, reads,
                 writes, interrupted, orig, afterFirst, firstExit>>

\* save_credentials, second step: mkdir(parents, exist_ok) of the existing
\* parent directory, then open(creds_path, 'w') truncates the file
save_credentials_open ==
  /\ pc = "open"
  /\ fs' = [fs EXCEPT ![creds_path] = Partial]
  /\ writes' = writes + 1
  /\ Goto("dump")
  /\ UNCHANGED <<argv, creds_path, creds, status, success, exitCode, run, reads,
                 copies, interrupted, orig, afterFirst, firstExit>>

\* Mutant of save_credentials_dump: the record is saved a second time
save_credentials_dump_twice ==
  /\ pc = "dump"
  /\ fs' = [fs EXCEPT ![creds_path] = json_dump(creds)]
  /\ IF copies < 2 THEN success' = success /\ Goto("backup")
     ELSE success' = "true" /\ Goto("exit")
  /\ UNCHANGED <<argv, creds_path, creds, status, exitCode, run, reads, copies,
                 writes, interrupted, orig, afterFirst, firstExit>>

\* save_credentials, last step: json.dump and close, return True; the caller
\* returns True
save_credentials_dump ==
  /\ pc = "dump"
  /\ fs' = [fs EXCEPT ![creds_path] = json_dump(creds)]
  /\ success' = "true"
  /\ Goto("exit")
  /\ UNCHANGED <<argv, creds_path, creds, status, exitCode, run, reads, copies,
                 writes, interrupted, orig, afterFirst, firstExit>>

\* Mutant of exit_status: the result of fix_registration_flag is ignored
exit_status_ignores_result(s) == 0

\* Mutant of exit_status: an unexpected exception exits with 0
exit_status_raised_ok(s) == IF s \in {"true", "raised"} THEN 0 ELSE 1

\* The exit status main chooses from the outcome of fix_registration_flag
exit_status(s) == IF s = "true" THEN 0 ELSE 1

\* main after fix_registration_flag: sys.exit(0) on success, sys.exit(1) on
\* failure or on an unexpected exception
main_exit ==
  /\ pc = "exit"
  /\ exitCode' = exit_status(success)
  /\ Goto("done")
  /\ UNCHANGED <<fs, argv, creds_path, creds, status, success, run, reads,
                 copies, writes, interrupted, orig, afterFirst, firstExit>>

\* The operator invokes the tool again on the same path
NextRun ==
  /\ pc = "done"
  /\ run < MaxRuns
  /\ run' = run + 1
  /\ afterFirst' = IF run = 1 THEN fs ELSE afterFirst
  /\ firstExit' = IF run = 1 THEN exitCode ELSE firstExit
  /\ orig' = fs
  /\ pc' = "main"
  /\ creds_path' = NoArg
  /\ creds' = Absent
  /\ status' = NoStatus
  /\ success' = "none"
  /\ exitCode' = -1
  /\ reads' = 0 /\ copies' = 0 /\ writes' = 0
  /\ reached' = {}
  /\ interrupted' = FALSE
  /\ UNCHANGED <<fs, argv>>

Next ==
  \/ main
  \/ validate_credentials
  \/ load_credentials
  \/ check_registration_status
  \/ fix_registration_flag
  \/ save_credentials_backup
  \/ save_credentials_open
  \/ save_credentials_dump
  \/ main_exit
  \/ NextRun

Spec == Init /\ [][Next]_vars

\* ------------------------------------------------- failures of the platform
\* validate_credentials: open or read raises an exception other than
\* JSONDecodeError ("Error reading credentials")
validate_credentials_error ==
  /\ pc = "validate"
  /\ fs[creds_path].k = "file"
  /\ reads' = reads + 1
  /\ success' = "false"
  /\ Goto("exit")
  /\ UNCHANGED <<fs, argv, creds_path, creds, status, exitCode, run, copies,
                 writes, interrupted, orig, afterFirst, firstExit>>

\* load_credentials: open or read raises; None is returned
load_credentials_error ==
  /\ pc = "load"
  /\ reads' = reads + 1
  /\ success' = "false"
  /\ Goto("exit")
  /\ UNCHANGED <<fs, argv, creds_path, creds, status, exitCode, run, copies,
                 writes, interrupted, orig, afterFirst, firstExit>>

\* Mutant of save_credentials_backup_error: the failed copy is only logged
\* and save_credentials goes on to the overwrite
save_credentials_backup_error_swallowed ==
  /\ pc = "backup"
  /\ fs[creds_path].k # "absent"
  /\ \E b \in {fs[backup_path(creds_path)], Partial} :
       fs' = [fs EXCEPT ![backup_path(creds_path)] = b]
  /\ copies' = copies + 1
  /\ Goto("open")
  /\ UNCHANGED <<argv, creds_path, creds, status, success, exitCode, run, reads,
                 writes, interrupted, orig, afterFirst, firstExit>>

\* save_credentials: shutil.copy2 raises; the backup path is untouched or
\* holds an incomplete copy; save_credentials returns False
save_credentials_backup_error ==
  /\ pc = "backup"
  /\ fs[creds_path].k # "absent"
  /\ \E b \in {fs[backup_path(creds_path)], Partial} :
       fs' = [fs EXCEPT ![backup_path(creds_path)] = b]
  /\ copies' = copies + 1
  /\ success' = "false"
  /\ Goto("exit")
  /\ UNCHANGED <<argv, creds_path, creds, status, exitCode, run, reads, writes,
                 interrupted, orig, afterFirst, firstExit>>

\* save_credentials: open(creds_path, 'w') raises; the file is untouched
save_credentials_open_error ==
  /\ pc = "open"
  /\ writes' = writes + 1
  /\ success' = "false"
  /\ Goto("exit")
  /\ UNCHANGED <<fs, argv, creds_path, creds, status, exitCode, run, reads,
                 copies, interrupted, orig, afterFirst, firstExit>>

\* save_credentials: json.dump or the closing flush raises; the file is left
\* incompletely written
save_credentials_dump_error ==
  /\ pc = "dump"
  /\ success' = "false"
  /\ Goto("exit")
  /\ UNCHANGED <<fs, argv, creds_path, creds, status, exitCode, run, reads,
                 copies, writes, interrupted, orig, afterFirst, firstExit>>

\* The positions inside main's try block
TryBlock == {"validate", "load", "check", "decide", "backup", "open", "dump", "exit"}

\* KeyboardInterrupt inside the try block of main: no handler below main
\* catches it (they catch Exception), main exits with 130.  An interrupted
\* copy may leave an incomplete backup; an interrupted dump leaves the
\* truncated file incomplete.
KeyboardInterrupt ==
  /\ pc \in TryBlock
  /\ IF pc = "backup" /\ fs[creds_path].k # "absent"
     THEN \E b \in {fs[backup_path(creds_path)], Partial} :
            fs' = [fs EXCEPT ![backup_path(creds_path)] = b]
     ELSE fs' = fs
  /\ interrupted' = TRUE
  /\ exitCode' = 130
  /\ Goto("done")
  /\ UNCHANGED <<argv, creds_path, creds, status, success, run, reads, copies,
                 writes, orig, afterFirst, firstExit>>

FaultNext ==
  \/ Next
  \/ validate_credentials_error
  \/ load_credentials_error
  \/ save_credentials_backup_error
  \/ save_credentials_open_error
  \/ save_credentials_dump_error
  \/ KeyboardInterrupt

FaultSpec == Init /\ [][FaultNext]_vars

\* The run is a single synchronous thread: it keeps taking steps
LiveSpec == Init /\ [][FaultNext]_vars /\ WF_vars(FaultNext)

\* --------------------------------------------------------------- properties
\* Vocabulary of the properties, stated on the data and not through the
\* operators of the run.
Target      == IF argv = NoArg THEN DEFAULT_CREDS_PATH ELSE argv
Sibling     == Target \o BACKUP_SUFFIX
Falsy       == {Absent, JNull, JFalse, JNum(0), JStr(""), JArr(0), JObj(NoKeys)}
Key(r, k)   == IF k \in DOMAIN r.o THEN r.o[k] ELSE Absent
Truthy(x)   == x \notin Falsy
WellFormed(e) == e.k = "file" /\ e.fmt \in {"compact", "indent2"}
IsRecord(e) == WellFormed(e) /\ e.val.j = "obj"
MeId(r)     == Key(Key(r, "me"), "id")
Finished    == pc = "done"
Persisting  == {"backup", "open", "dump"}

\* The record needs the fix: account truthy, me.id truthy, registered false
\* or absent
Broken(e) ==
  /\ IsRecord(e)
  /\ Truthy(Key(e.val, "account"))
  /\ Truthy(MeId(e.val))
  /\ Key(e.val, "registered") \in {Absent, JFalse}

\* e2 holds the record of e1 with registered true and every other key equal
Repaired(e1, e2) ==
  /\ IsRecord(e2)
  /\ Key(e2.val, "registered") = JTrue
  /\ DOMAIN e2.val.o = DOMAIN e1.val.o \cup {"registered"}
  /\ \A k \in Keys \ {"registered"} : Key(e2.val, k) = Key(e1.val, k)

\* C1: on a record with account truthy, me.id truthy and registered false or
\* absent, check_registration_status reports needs_fix, and the finished run
\* has returned success, left the record with registered true and all other
\* keys as they were, and left the original bytes at the sibling backup path.
C1_FixApplied ==
  Broken(orig[Target]) =>
    /\ ("check" \in reached /\ pc # "check") => ("decide" \in reached /\ status.needs_fix)
    /\ Finished =>
         /\ success = "true"
         /\ Repaired(orig[Target], fs[Target])
         /\ fs[Sibling] = orig[Target]

C1_Witness ==
  /\ Finished /\ Broken(orig[Target]) /\ writes = 1
  /\ Key(orig[Target].val, "registered") = Absent
  /\ Key(orig[Target].val, "extra") # Absent
  /\ orig[Sibling] = Garbage

\* State part of C2: the original bytes are in the file or in the backup; a
\* write implies validation, parsing and one complete backup copy; a failed
\* copy is followed by no write.
C2_State ==
  /\ fs[Target] = orig[Target] \/ fs[Sibling] = orig[Target]
  /\ writes > 0 =>
       /\ {"validate", "load", "check", "decide", "backup", "open"} \subseteq reached
       /\ WellFormed(orig[Target])
       /\ copies = 1
       /\ fs[Sibling] = orig[Target]
  /\ (copies > 0 /\ fs[Sibling] # orig[Target]) => (writes = 0 /\ pc \in {"exit", "done"})

\* Step part of C2: once the overwrite has begun the run reads nothing,
\* copies nothing and opens nothing for writing again.
C2_Step ==
  (writes > 0 /\ run' = run) =>
    /\ reads' = reads /\ copies' = copies /\ writes' = writes
    /\ fs'[Sibling] = fs[Sibling]

\* C2: at every point of a run, failures and interruption included, the
\* credentials file holds its original bytes or the backup holds a complete
\* copy of them; the file is overwritten only after validation, parsing and
\* one successful backup copy, a failed copy aborts the run before the
\* overwrite, and the overwrite is the last filesystem action.
C2_BackupBeforeOverwrite == [](C2_State) /\ [][C2_Step]_vars

C2_Witness ==
  /\ Finished /\ interrupted /\ writes = 1
  /\ fs[Target] = Partial /\ fs[Sibling] = orig[Target]

\* The claim-side reading of needs_fix for a record
NeedsFix(r) ==
  Truthy(Key(r, "account")) /\ Truthy(MeId(r)) /\ ~ Truthy(Key(r, "registered"))

\* C3: on a record that needs no fix the run writes nothing, creates no
\* backup, leaves both paths as they were and exits with status 0.
C3_NoFixNoWrite ==
  (IsRecord(orig[Target]) /\ ~ NeedsFix(orig[Target].val)) =>
    /\ fs = orig /\ writes = 0 /\ copies = 0
    /\ Finished => exitCode = 0

\* C4: when the path is missing, is not a file, or does not hold well-formed
\* JSON, the run exits with status 1, the filesystem is unchanged, and the
\* run never reaches load, assess or persist.
C4_ValidationFails ==
  ~ WellFormed(orig[Target]) =>
    /\ fs = orig
    /\ reached \cap ({"load", "check", "decide"} \cup Persisting) = {}
    /\ writes = 0 /\ copies = 0
    /\ Finished => exitCode = 1

C4_Witness ==
  /\ Finished /\ exitCode = 1
  /\ orig[Target] = NoEntry /\ fs[Target] = NoEntry /\ fs[Sibling] = NoEntry

\* C5: a second (and any later) run ends with the filesystem as the first
\* run left it, and after a successful first run it takes the no-fix-needed
\* path without writing.
C5_Idempotent ==
  (run >= 2 /\ Finished) =>
    /\ fs = afterFirst
    /\ firstExit = 0 =>
         /\ "decide" \in reached /\ ~ status.needs_fix
         /\ reached \cap Persisting = {}
         /\ writes = 0 /\ copies = 0 /\ exitCode = 0

C5_Witness ==
  /\ run = 2 /\ Finished /\ firstExit = 0
  /\ afterFirst[Target].fmt = "indent2"
  /\ afterFirst[Sibling].fmt = "compact"

\* The fix was applied and saved: the record was completely written
FixSaved == "dump" \in reached /\ IsRecord(fs[Target]) /\ fs[Target].fmt = "indent2"
\* The run found that no fix was needed
NoFixNeeded == "decide" \in reached /\ ~ status.needs_fix /\ writes = 0

\* The exit status of a finished run
C6_Status ==
  Finished =>
    /\ exitCode \in {0, 1, 130}
    /\ exitCode = 130 <=> interrupted
    /\ exitCode = 0 <=> (~ interrupted /\ (FixSaved \/ NoFixNeeded))
    /\ exitCode = 1 <=> (~ interrupted /\ ~ (FixSaved \/ NoFixNeeded))

\* C6: every run terminates, with exactly one of the statuses 0, 1, 130:
\* 130 exactly when it was interrupted, otherwise 0 exactly when the fix was
\* applied and saved or no fix was needed, otherwise 1.
C6_ExitStatus == [](C6_Status) /\ ((pc = "main") ~> Finished)

C6_Witness ==
  /\ Finished /\ exitCode = 1 /\ "dump" \in reached /\ fs[Target] = Partial

\* C7 as stated: after exit status 0 the stored record has registered = true
\* whenever account and me.id are truthy.
C7_RegisteredIsTrue ==
  (Finished /\ exitCode = 0) =>
    /\ IsRecord(fs[Target])
    /\ (Truthy(Key(fs[Target].val, "account")) /\ Truthy(MeId(fs[Target].val)))
         => Key(fs[Target].val, "registered") = JTrue

\* C7 as amended: after exit status 0 the stored record has a truthy
\* registered whenever account and me.id are truthy; it is exactly true when
\* the run rewrote the file or the stored value is a boolean.
C7_RegisteredIsTruthy ==
  (Finished /\ exitCode = 0) =>
    /\ IsRecord(fs[Target])
    /\ (Truthy(Key(fs[Target].val, "account")) /\ Truthy(MeId(fs[Target].val))) =>
         /\ Truthy(Key(fs[Target].val, "registered"))
         /\ (writes > 0 \/ Key(fs[Target].val, "registered").j = "bool")
              => Key(fs[Target].val, "registered") = JTrue

C7_Witness ==
  /\ Finished /\ exitCode = 0 /\ writes = 1
  /\ Key(orig[Target].val, "registered") = JNull
  /\ Key(fs[Target].val, "registered") = JTrue

\* C8: on a record whose account is absent or falsy the assessment completes
\* without an error and reports needs_fix = false, whatever me and
\* registered are.
C8_NoAccountNoFix ==
  (IsRecord(orig[Target]) /\ ~ Truthy(Key(orig[Target].val, "account"))
     /\ "check" \in reached /\ pc # "check") =>
    /\ success # "raised"
    /\ "decide" \in reached
    /\ ~ status.needs_fix

NotAnObject(e) ==
  /\ WellFormed(e)
  /\ \/ e.val.j # "obj"
     \/ e.val.j = "obj" /\ Key(e.val, "me") \notin {Absent} /\ Key(e.val, "me").j # "obj"

\* C10: on well-formed JSON whose top-level value is not an object, or whose
\* me is present and not an object, the run passes validation, exits with
\* status 1, and leaves the file unchanged and no backup created.
C10_NonObjectFails ==
  NotAnObject(orig[Target]) =>
    /\ fs = orig /\ writes = 0 /\ copies = 0
    /\ pc \notin {"main", "validate"} => "load" \in reached
    /\ Finished => exitCode = 1

C10_Witness ==
  /\ Finished /\ exitCode = 1 /\ success = "raised"
  /\ IsRecord(orig[Target]) /\ Key(orig[Target].val, "me") = JNull
  /\ Truthy(Key(orig[Target].val, "account"))

====
